---- MODULE Spec2Model ----
(***************************************************************************)
(* Model of the changelog formatter of stacc/changeset-formatter           *)
(* (src/src/index.ts): the module-level author accumulator, the two        *)
(* wrapped entry points, the directive extraction of getReleaseLine, the   *)
(* host-API lookups and the credits section.                               *)
(*                                                                         *)
(* Representation.  A summary is a sequence of lines; a line is a record   *)
(* saying what the directive regular expressions of index.ts:45 and        *)
(* index.ts:50 see in it.  An absent string (undefined, null or "") is "", *)
(* an absent number is the empty sequence <<>> and a present one <<n>>.    *)
(* Rendered text is kept structured: a pull-request label is the sequence  *)
(* of its decimal digits, the credits sentence is a sequence of tokens.    *)
(***************************************************************************)
EXTENDS Integers, Sequences, FiniteSets, TLC

\* ------------------------------------------------------------------ bounds

\* Longest summary, in lines.
MaxLines == 3
\* Longest run of calls that the observer's run log records.
MaxRunLen == 3
\* Most changesets handed to one dependency-line call.
MaxChangesets == 2

\* ------------------------------------------------------------ input values

\* Author handles in the order of Array.prototype.sort (UTF-16 code units).
AuthorOrder == <<"A", "B", "C">>

Authors == {AuthorOrder[i] : i \in 1..Len(AuthorOrder)}

Commits == {"a085003", "wrongcommit"}

Repo == "o/r"

\* Pull request numbers the host API may link a commit to.
ApiPulls == {3}

\* Pull request numbers the caller may put in the changeset's PR field.
FieldPulls == {12}

\* ------------------------------------------------------------------- lines

Line(kind, kw, mark, digits, tok, tail) ==
    [kind |-> kind, kw |-> kw, mark |-> mark, digits |-> digits, tok |-> tok, tail |-> tail]

\* A line of plain text.
Text(t) == Line("text", "", FALSE, <<>>, t, FALSE)

\* An empty (or whitespace-only) line.
Blank == Line("blank", "", FALSE, <<>>, "", FALSE)

\* "<kw>: #?<digits><tail>": what /^\s*(?:pr|pull|pull\s+request):\s*#?(\d+)/im matches.
PrLine(kw, hash, digits, tail) == Line("pr", kw, hash, digits, "", tail)

\* "commit: <tok><tail>": what /^\s*commit:\s*([^\s]+)/im matches.
CommitLine(tok, tail) == Line("commit", "commit", FALSE, <<>>, tok, tail)

\* "<author|user>: @?<tok>": no expression of index.ts matches it.
AuthorLine(kw, at, tok) == Line("author", kw, at, <<>>, tok, FALSE)

\* "ticket: <tok>": no expression of index.ts matches it.
TicketLine(tok) == Line("ticket", "ticket", FALSE, <<>>, tok, FALSE)

\* What is left of a matched line: the text after the matched token, if any.
Residue(l) == IF l.tail THEN Text("trailing") ELSE Blank

IsBlank(l) == l.kind = "blank"

\* Number(pr): the value of a run of decimal digits.
RECURSIVE Number(_)
Number(digits) ==
    IF digits = <<>> THEN 0
    ELSE 10 * Number(SubSeq(digits, 1, Len(digits) - 1)) + digits[Len(digits)]

\* `${n}` of a non-negative integer: its decimal digits, no leading zero.
RECURSIVE NumberToString(_)
NumberToString(n) ==
    IF n < 10 THEN <<n>> ELSE NumberToString(n \div 10) \o <<n % 10>>

\* Mutant: the last matching line is taken, not the first.
FirstMatch_LastWins(lines, kind) ==
    LET hits == {i \in 1..Len(lines) : lines[i].kind = kind}
    IN  IF hits = {} THEN 0 ELSE CHOOSE i \in hits : \A k \in hits : i >= k

\* Index of the first line a directive expression matches, 0 when none does.
FirstMatch(lines, kind) ==
    LET hits == {i \in 1..Len(lines) : lines[i].kind = kind}
    IN  IF hits = {} THEN 0 ELSE CHOOSE i \in hits : \A k \in hits : i <= k

\* String.prototype.replace with a non-global expression anchored by ^\s*:
\* the first matching line is replaced by "" up to the end of the matched
\* token.  ^ also matches at the start of the blank lines right before the
\* directive and \s* runs over them, so they go with it.
ReplaceFirst(lines, kind) ==
    LET i == FirstMatch(lines, kind)
    IN  IF i = 0 THEN lines
        ELSE LET j == CHOOSE s \in 1..i :
                        /\ \A k \in s..(i - 1) : IsBlank(lines[k])
                        /\ s = 1 \/ ~IsBlank(lines[s - 1])
             IN  SubSeq(lines, 1, j - 1) \o <<Residue(lines[i])>>
                    \o SubSeq(lines, i + 1, Len(lines))

\* The pr callback: prFromSummary is set when the expression matches.
PrFromSummary(summary) ==
    LET i == FirstMatch(summary, "pr")
    IN  IF i = 0 THEN <<>> ELSE <<Number(summary[i].digits)>>

\* The commit callback, applied to the text the pr replacement left.
CommitFromSummary(summary) ==
    LET rest == ReplaceFirst(summary, "pr")
        i == FirstMatch(rest, "commit")
    IN  IF i = 0 THEN "" ELSE rest[i].tok

\* String.prototype.trim on the whole text: leading and trailing blank lines go.
RECURSIVE Trim(_)
Trim(lines) ==
    IF lines = <<>> THEN <<>>
    ELSE IF IsBlank(Head(lines)) THEN Trim(Tail(lines))
    ELSE IF IsBlank(lines[Len(lines)]) THEN Trim(SubSeq(lines, 1, Len(lines) - 1))
    ELSE lines

\* replacedChangelog.split("\n"): the empty text splits into one empty line.
ReplacedChangelog(summary) ==
    LET t == Trim(ReplaceFirst(ReplaceFirst(summary, "pr"), "commit"))
    IN  IF t = <<>> THEN <<Blank>> ELSE t

\* ---------------------------------------------------------------- host API

\* The lookup getReleaseLine starts: by pull request when the summary gave a
\* number (prFromSummary !== undefined, 0 included), else by
\* commitFromSummary || changeset.commit, else none.
Query(api, pull, commit) == [api |-> api, pull |-> pull, commit |-> commit]

NoQuery == Query("none", 0, "")

\* Mutant: changeset.commit || commitFromSummary.
CommitToFetchFrom_IntrinsicFirst(summary, commit) ==
    IF commit # "" THEN commit ELSE CommitFromSummary(summary)

CommitToFetchFrom(summary, commit) ==
    IF CommitFromSummary(summary) # "" THEN CommitFromSummary(summary) ELSE commit

ReleaseQuery(summary, commit) ==
    IF PrFromSummary(summary) # <<>>
    THEN Query("pull", PrFromSummary(summary)[1], "")
    ELSE IF CommitToFetchFrom(summary, commit) # ""
         THEN Query("commit", 0, CommitToFetchFrom(summary, commit))
         ELSE NoQuery

\* What a lookup settles with: user, links.pull (the number of "[#n](url)")
\* and links.commit (the hash of "[`hash`](url)"), each possibly absent.
Info(user, pull, commit) == [user |-> user, pull |-> pull, commit |-> commit]

\* { links: { commit: null, pull: null }, user: null }
NoInfo == Info("", <<>>, "")

\* The values the host API can resolve a query with.
Replies(q) ==
    IF q.api = "pull"
    THEN {Info(u, p, c) : u \in Authors \cup {""}, p \in {<<>>, <<q.pull>>},
                          c \in {"", "a085003"}}
    ELSE {Info(u, p, c) : u \in Authors \cup {""},
                          p \in {<<>>} \cup {<<n>> : n \in ApiPulls},
                          c \in {"", q.commit}}

\* ---------------------------------------------------------------- rendering

\* prFromSummary || changeset.PR || links.pull?.match(/#(\d+)/)?.[1], as the
\* text `${prNumber}` prints: a number 0 is falsy, a matched string never is.
PrNumber(prFromSummary, PR, info) ==
    IF prFromSummary # <<>> /\ prFromSummary[1] # 0 THEN NumberToString(prFromSummary[1])
    ELSE IF PR # <<>> /\ PR[1] # 0 THEN NumberToString(PR[1])
    ELSE IF info.pull # <<>> THEN NumberToString(info.pull[1])
    ELSE <<>>

Link(t, label, repo, commit) == [t |-> t, label |-> label, repo |-> repo, commit |-> commit]

NoLink == Link("none", <<>>, "", "")

\* " ([#n](https://github.com/<repo>/pull/n))", else " (<links.commit>)", else nothing.
ReleaseLink(prNumber, repo, info) ==
    IF prNumber # <<>> THEN Link("pull", prNumber, repo, "")
    ELSE IF info.commit # "" THEN Link("commit", <<>>, "", info.commit)
    ELSE NoLink

\* The rendered release line: "- <firstLine><link>" and the indented futureLines.
ReleaseLine(summary, PR, repo, info) ==
    [kind        |-> "release",
     firstLine   |-> Head(ReplacedChangelog(summary)),
     link        |-> ReleaseLink(PrNumber(PrFromSummary(summary), PR, info), repo, info),
     futureLines |-> Tail(ReplacedChangelog(summary)),
     links       |-> <<>>,
     deps        |-> 0]

\* changesetLinks.filter(Boolean): the links that are present, in order.
FilteredLinks(changesetLinks) == SelectSeq(changesetLinks, LAMBDA l : l # "")

\* "Updated dependencies [<links>]:" and one line per dependency.
DependencyLine(changesetLinks, deps) ==
    [kind        |-> "dependency",
     firstLine   |-> Text("Updated dependencies"),
     link        |-> NoLink,
     futureLines |-> <<>>,
     links       |-> FilteredLinks(changesetLinks),
     deps        |-> deps]

\* The "" getDependencyReleaseLine returns when no dependency was updated
\* (and the placeholder of a call that returned no line).
EmptyLine ==
    [kind |-> "empty", firstLine |-> Blank, link |-> NoLink, futureLines |-> <<>>,
     links |-> <<>>, deps |-> 0]

\* ------------------------------------------------------------------ credits

\* Array.from(allAuthors).sort()
SortedAuthors(authors) == SelectSeq(AuthorOrder, LAMBDA a : a \in authors)

\* authors.map((author) => `@${author}`)
AuthorLinks(authors) ==
    [i \in 1..Len(SortedAuthors(authors)) |-> "@" \o SortedAuthors(authors)[i]]

\* Array.prototype.join as a sequence of tokens.
RECURSIVE Join(_, _)
Join(items, sep) ==
    IF Len(items) <= 1 THEN items
    ELSE <<Head(items), sep>> \o Join(Tail(items), sep)

\* getCreditsSection's text: <<>> is the empty string.
CreditsText(authors, added) ==
    LET authorLinks == AuthorLinks(authors)
        n == Len(authorLinks)
    IN  IF authors = {} \/ added THEN <<>>
        ELSE IF n = 1
             THEN <<"\n\n**Credits**\n", "Huge thanks to ", authorLinks[1], " for helping!">>
        ELSE IF n = 2
             THEN <<"\n\n**Credits**\n", "Huge thanks to ", authorLinks[1], " and ",
                    authorLinks[2], " for helping!">>
        ELSE <<"\n\n**Credits**\n", "Huge thanks to ">>
                \o Join(SubSeq(authorLinks, 1, n - 1), ", ")
                \o <<", and ", authorLinks[n], " for helping!">>

\* ------------------------------------------------------------ shared state

\* The module-level state of index.ts:14-16 as one value.
State(authors, patches, added) ==
    [allAuthors |-> authors, patchChanges |-> patches, hasAddedCredits |-> added]

resetChangelogState(s) == State({}, {}, FALSE)

\* allAuthors.add(user) under if (user).
AddAuthor(s, user) ==
    IF user # "" THEN [s EXCEPT !.allAuthors = @ \cup {user}] ELSE s

\* patchChanges.add(changeset.summary) under if (type === "patch").
TrackPatch(s, type, summary) ==
    IF type = "patch" THEN [s EXCEPT !.patchChanges = @ \cup {summary}] ELSE s

\* getCreditsSection: the text it returns and the state it leaves.
getCreditsSection(s) ==
    LET text == CreditsText(s.allAuthors, s.hasAddedCredits)
    IN  [text  |-> text,
         state |-> IF text # <<>> THEN [s EXCEPT !.hasAddedCredits = TRUE] ELSE s]

\* ----------------------------------------------------------------- options

Options(given, repo, isLast) == [given |-> given, repo |-> repo, isLast |-> isLast]

\* opts === null
NullOptions == Options(FALSE, "", FALSE)

\* !options || !options.repo
MissingRepo(opts) == ~opts.given \/ opts.repo = ""

\* opts?.isLast
IsLast(opts) == opts.given /\ opts.isLast

\* Mutant: the repo option is validated before the state is reset.
WrapperEntry_ValidatesFirst(s, opts) ==
    IF ~IsLast(opts) /\ ~MissingRepo(opts) THEN resetChangelogState(s) ELSE s

\* The first statement of both wrappers: if (!opts?.isLast) resetChangelogState().
WrapperEntry(s, opts) == IF ~IsLast(opts) THEN resetChangelogState(s) ELSE s

\* The last statements of both wrappers: the credits are appended and the
\* state reset when this is the last entry, there are authors and no credits
\* were added; else the result is returned as it is.
WrapperReturn(s, opts) ==
    IF IsLast(opts) /\ s.allAuthors # {} /\ ~s.hasAddedCredits
    THEN [credits |-> getCreditsSection(s).text,
          state   |-> resetChangelogState(getCreditsSection(s).state)]
    ELSE [credits |-> <<>>, state |-> s]

\* Mutant: the function is not async, so its throw reaches the caller.
AsyncFunction_NotAsync(completion) ==
    IF completion = "throw" THEN "thrown" ELSE "fulfilled"

\* An async function never throws to its caller: a throw in its body
\* rejects the promise it returned, a return fulfils it.
AsyncFunction(completion) == IF completion = "throw" THEN "rejected" ELSE "fulfilled"

\* ------------------------------------------------------------------- state

VARIABLES
    allAuthors,       \* index.ts:14
    patchChanges,     \* index.ts:15
    hasAddedCredits,  \* index.ts:16
    pc,               \* "idle", or the wrapper that awaits its lookups
    call,             \* the arguments of the current (or last) call
    infos,            \* the lookups of that call, one per changeset
    settled,          \* how the promise of that call settled
    runLog,           \* observer: the settled calls of the current run
    prev,             \* observer: the call before the current one
    completed         \* observer: the lookups of the call, in the order they settled

vars ==
    <<allAuthors, patchChanges, hasAddedCredits, pc, call, infos, settled, runLog, prev,
      completed>>

Current == State(allAuthors, patchChanges, hasAddedCredits)

Store(s) ==
    /\ allAuthors' = s.allAuthors
    /\ patchChanges' = s.patchChanges
    /\ hasAddedCredits' = s.hasAddedCredits

\* { summary, commit?, PR? } of ChangesetWithPR.
Changeset(summary, commit, PR) == [summary |-> summary, commit |-> commit, PR |-> PR]

Lookup(state, info) == [state |-> state, info |-> info]

Settled(outcome, line, credits) == [outcome |-> outcome, line |-> line, credits |-> credits]

\* A run ends with the call that carries isLast; the next call starts a run.
RunEnded == call.kind = "none" \/ IsLast(call.opts)

\* The observer records runs of at most MaxRunLen calls.
RunRoom(opts) ==
    IsLast(opts) \/ (IF RunEnded THEN 0 ELSE Len(runLog)) + 1 < MaxRunLen

\* The authors the lookups of a call resolved.
Gathered(lookups) ==
    {lookups[i].info.user : i \in {k \in 1..Len(lookups) : lookups[k].state = "resolved"}}
        \ {""}

\* What the observer logs of a settled call: its kind and, for a release
\* line, the author its lookup resolved ("" when none).
LogEntry(c, lookups) ==
    [kind   |-> c.kind,
     author |-> IF c.kind = "release" /\ lookups[1].state = "resolved"
                THEN lookups[1].info.user ELSE ""]

\* What the observer keeps of a call when the next one begins.
PrevOf ==
    [kind     |-> call.kind,
     isLast   |-> IsLast(call.opts),
     gathered |-> Gathered(infos) # {},
     credited |-> settled.credits # <<>>]

Init ==
    /\ allAuthors = {}
    /\ patchChanges = {}
    /\ hasAddedCredits = FALSE
    /\ pc = "idle"
    /\ call = [kind |-> "none", changesets |-> <<>>, type |-> "", deps |-> 0,
               opts |-> NullOptions, queries |-> <<>>, entry |-> State({}, {}, FALSE),
               firstOfRun |-> FALSE]
    /\ infos = <<>>
    /\ settled = Settled("none", EmptyLine, <<>>)
    /\ runLog = <<>>
    /\ prev = [kind |-> "none", isLast |-> FALSE, gathered |-> FALSE, credited |-> FALSE]
    /\ completed = <<>>

\* The wrapper's promise settles: the caller gets the line and the credits,
\* the shared state is left as WrapperReturn leaves it.
Fulfil(c, s, line, lookups, log) ==
    /\ infos' = lookups
    /\ Store(WrapperReturn(s, c.opts).state)
    /\ settled' = Settled(AsyncFunction("return"), line, WrapperReturn(s, c.opts).credits)
    /\ runLog' = Append(log, LogEntry(c, lookups))
    /\ pc' = "idle"

\* The throw of index.ts:32 / index.ts:126 inside the async function: the
\* promise the wrapper awaits is rejected, and so is the wrapper's own.
Reject(c, s, lookups, log) ==
    /\ infos' = lookups
    /\ Store(s)
    /\ settled' = Settled(AsyncFunction("throw"), EmptyLine, <<>>)
    /\ runLog' = Append(log, LogEntry(c, lookups))
    /\ pc' = "idle"

\* The wrapper awaits the lookups it started.
Await(c, s, lookups, log) ==
    /\ infos' = lookups
    /\ Store(s)
    /\ settled' = Settled("pending", EmptyLine, <<>>)
    /\ runLog' = log
    /\ pc' = c.kind

\* ----------------------------------------------------------- release lines

\* wrappedGetReleaseLine(changeset, type, opts), up to its first await.
ReleaseCall(changeset, type, opts) ==
    /\ pc = "idle"
    /\ RunRoom(opts)
    /\ LET entered == WrapperEntry(Current, opts)
           q == IF MissingRepo(opts) THEN NoQuery
                ELSE ReleaseQuery(changeset.summary, changeset.commit)
           c == [kind |-> "release", changesets |-> <<changeset>>, type |-> type,
                 deps |-> 0, opts |-> opts, queries |-> <<q>>, entry |-> entered,
                 firstOfRun |-> RunEnded]
           log == IF RunEnded THEN <<>> ELSE runLog
       IN  /\ call' = c
           /\ prev' = PrevOf
           /\ completed' = <<>>
           /\ IF MissingRepo(opts)
              THEN Reject(c, entered, <<Lookup("none", NoInfo)>>, log)
              ELSE IF q = NoQuery
              THEN Fulfil(c, TrackPatch(entered, type, changeset.summary),
                          ReleaseLine(changeset.summary, changeset.PR, opts.repo, NoInfo),
                          <<Lookup("none", NoInfo)>>, log)
              ELSE Await(c, entered, <<Lookup("pending", NoInfo)>>, log)

\* The rest of wrappedGetReleaseLine once the lookup has settled with info.
ReleaseReturn(s, lookup) ==
    /\ Fulfil(call, TrackPatch(s, call.type, call.changesets[1].summary),
              ReleaseLine(call.changesets[1].summary, call.changesets[1].PR,
                          call.opts.repo, lookup.info),
              <<lookup>>, runLog)
    /\ completed' = <<1>>
    /\ UNCHANGED <<call, prev>>

\* getInfoFromPullRequest / getInfo resolves: index.ts:65-72, 78-85.
GetInfoResolves(info) ==
    /\ pc = "release"
    /\ info \in Replies(call.queries[1])
    /\ ReleaseReturn(AddAuthor(Current, info.user), Lookup("resolved", info))

\* Mutant: no try / catch around the lookup, the rejection propagates.
GetInfoRejects_Propagates ==
    /\ pc = "release"
    /\ Reject(call, Current, <<Lookup("rejected", NoInfo)>>, runLog)
    /\ completed' = <<1>>
    /\ UNCHANGED <<call, prev>>

\* Mutant: the catch falls back to a plain link to the commit it looked up.
GetInfoRejects_CommitFallback ==
    /\ pc = "release"
    /\ ReleaseReturn(Current, Lookup("rejected", Info("", <<>>, call.queries[1].commit)))

\* getInfoFromPullRequest / getInfo rejects: the catch of index.ts:89-93.
GetInfoRejects ==
    /\ pc = "release"
    /\ ReleaseReturn(Current, Lookup("rejected", NoInfo))

\* -------------------------------------------------------- dependency lines

\* The lookup of one changeset of the batch: getInfo when it has a commit.
DependencyQuery(changeset) ==
    IF changeset.commit # "" THEN Query("commit", 0, changeset.commit) ELSE NoQuery

\* What the mapped async function of index.ts:137-155 returns for a lookup:
\* links.commit when it resolved, null when it rejected or was not made.
ChangesetLink(lookup) == IF lookup.state = "resolved" THEN lookup.info.commit ELSE ""

ChangesetLinks(lookups) == [i \in 1..Len(lookups) |-> ChangesetLink(lookups[i])]

\* wrappedGetDependencyReleaseLine(changesets, dependencies, opts), up to
\* the await of Promise.all: every lookup is started, in input order.
DependencyCall(changesets, deps, opts) ==
    /\ pc = "idle"
    /\ RunRoom(opts)
    /\ LET entered == WrapperEntry(Current, opts)
           started == ~MissingRepo(opts) /\ deps > 0
           qs == [i \in 1..Len(changesets) |->
                    IF started THEN DependencyQuery(changesets[i]) ELSE NoQuery]
           lookups == [i \in 1..Len(changesets) |->
                    IF qs[i] = NoQuery THEN Lookup("none", NoInfo)
                    ELSE Lookup("pending", NoInfo)]
           c == [kind |-> "dependency", changesets |-> changesets, type |-> "",
                 deps |-> deps, opts |-> opts, queries |-> qs, entry |-> entered,
                 firstOfRun |-> RunEnded]
           log == IF RunEnded THEN <<>> ELSE runLog
       IN  /\ call' = c
           /\ prev' = PrevOf
           /\ completed' = <<>>
           /\ IF MissingRepo(opts) THEN Reject(c, entered, lookups, log)
              ELSE IF deps = 0 THEN Fulfil(c, entered, EmptyLine, lookups, log)
              ELSE IF \A i \in 1..Len(qs) : qs[i] = NoQuery
              THEN Fulfil(c, entered, DependencyLine(ChangesetLinks(lookups), deps),
                          lookups, log)
              ELSE Await(c, entered, lookups, log)

\* Mutant: the links are collected as the lookups settle, not by position.
DependencySettle_CompletionOrder(s, i, lookup) ==
    LET lookups == [infos EXCEPT ![i] = lookup]
        order == Append(completed, i)
        settledLinks == [k \in 1..Len(order) |-> ChangesetLink(lookups[order[k]])]
    IN  /\ IF \E k \in 1..Len(lookups) : lookups[k].state = "pending"
           THEN /\ infos' = lookups
                /\ Store(s)
                /\ UNCHANGED <<pc, settled, runLog>>
           ELSE Fulfil(call, s, DependencyLine(settledLinks, call.deps), lookups, runLog)
        /\ completed' = order
        /\ UNCHANGED <<call, prev>>

\* One lookup of the batch settles; when it was the last one pending,
\* Promise.all resolves and the wrapper returns.
DependencySettle(s, i, lookup) ==
    LET lookups == [infos EXCEPT ![i] = lookup]
    IN  /\ IF \E k \in 1..Len(lookups) : lookups[k].state = "pending"
           THEN /\ infos' = lookups
                /\ Store(s)
                /\ UNCHANGED <<pc, settled, runLog>>
           ELSE Fulfil(call, s, DependencyLine(ChangesetLinks(lookups), call.deps),
                       lookups, runLog)
        /\ completed' = Append(completed, i)
        /\ UNCHANGED <<call, prev>>

\* getInfo resolves for changeset i: index.ts:140-147.
CommitLookupResolves(i, info) ==
    /\ pc = "dependency"
    /\ i \in 1..Len(infos)
    /\ infos[i].state = "pending"
    /\ info \in Replies(call.queries[i])
    /\ DependencySettle(AddAuthor(Current, info.user), i, Lookup("resolved", info))

\* getInfo rejects for changeset i: the catch of index.ts:148-152.
CommitLookupRejects(i) ==
    /\ pc = "dependency"
    /\ i \in 1..Len(infos)
    /\ infos[i].state = "pending"
    /\ DependencySettle(Current, i, Lookup("rejected", NoInfo))

\* ------------------------------------------------------------------ inputs

\* Every shape of the options: null, without a repo, with one.
AnyOptions == {Options(TRUE, r, l) : r \in {"", Repo}, l \in BOOLEAN} \cup {NullOptions}

\* The options of the calls of a run: null, or with or without a repo, on
\* a last call and on any other.
RunOptions == AnyOptions

Types == {"patch", "minor"}

\* The replies of a run: the commit's link and pull request, any author or none.
RunInfos == {Info(u, <<n>>, "a085003") : u \in Authors \cup {""}, n \in ApiPulls}

\* The replies to the lookups of a dependency line in a run: the commit's
\* link, the author "A" or none.
BatchInfos == {Info(u, <<n>>, "a085003") : u \in {"A", ""}, n \in ApiPulls}

\* Batches of changesets for a dependency line.
RECURSIVE SeqsUpTo(_, _)
SeqsUpTo(S, n) ==
    IF n = 0 THEN {<<>>}
    ELSE SeqsUpTo(S, n - 1)
            \cup {Append(q, x) : q \in {r \in SeqsUpTo(S, n - 1) : Len(r) = n - 1}, x \in S}

\* The changesets of a run: a plain summary and a commit to look up.
RunChangesets == {Changeset(<<Text("something")>>, "a085003", <<>>)}

RunBatches == SeqsUpTo(RunChangesets, MaxChangesets)

\* Sequential calls of the release tool, lookups settling in any order.
Next ==
    \/ pc = "idle" /\ \E cs \in RunChangesets, type \in Types, opts \in RunOptions :
          ReleaseCall(cs, type, opts)
    \/ pc = "idle" /\ \E css \in RunBatches, opts \in RunOptions :
          DependencyCall(css, 1, opts)
    \/ pc = "release" /\ \E info \in RunInfos : GetInfoResolves(info)
    \/ GetInfoRejects
    \/ pc = "dependency" /\ \E i \in 1..MaxChangesets, info \in BatchInfos :
          CommitLookupResolves(i, info)
    \/ \E i \in 1..MaxChangesets : CommitLookupRejects(i)

Spec == Init /\ [][Next]_vars

\* ------------------------------------------------------- one call, any line

\* The lines a summary is made of: text, the three pr keywords with and
\* without '#', a zero and a zero-padded number, a commit directive, a
\* commit directive for another commit with text after the hash, an author
\* directive and a ticket directive.
SummaryLines ==
    {Text("something"), Text("detail"),
     PrLine("pr", FALSE, <<7>>, FALSE),
     PrLine("pull", TRUE, <<0, 5>>, FALSE),
     PrLine("pull request", TRUE, <<0>>, FALSE),
     CommitLine("a085003", FALSE),
     CommitLine("wrongcommit", TRUE),
     AuthorLine("author", TRUE, "B"),
     TicketLine("https://x/browse/PRO-142")}

Summaries == SeqsUpTo(SummaryLines, MaxLines) \ {<<>>}

LineChangesets ==
    {Changeset(s, c, pr) : s \in Summaries, c \in Commits \cup {""},
                           pr \in {<<>>} \cup {<<n>> : n \in FieldPulls}}

\* The replies to one call: author "A" or none, any pull request link or
\* none, the commit's link or none.
LineInfos ==
    {Info(u, p, c) : u \in {"", "A"},
                     p \in {<<>>} \cup {<<n>> : n \in ApiPulls \cup {0, 5, 7}},
                     c \in Commits \cup {""}}

\* Batches of changesets with and without a commit.
LineBatches ==
    SeqsUpTo({Changeset(<<Text("something")>>, c, <<>>) : c \in Commits \cup {""}},
             MaxChangesets)

FirstCall == call.kind = "none"

\* One call on a fresh module, with any summary, and its lookups.
NextLine ==
    \/ FirstCall /\ \E cs \in LineChangesets, opts \in AnyOptions :
          ReleaseCall(cs, "minor", opts)
    \/ FirstCall /\ \E css \in LineBatches, deps \in 0..1, opts \in AnyOptions :
          DependencyCall(css, deps, opts)
    \/ pc = "release" /\ \E info \in LineInfos : GetInfoResolves(info)
    \/ GetInfoRejects
    \/ pc = "dependency" /\ \E i \in 1..MaxChangesets, info \in LineInfos :
          CommitLookupResolves(i, info)
    \/ \E i \in 1..MaxChangesets : CommitLookupRejects(i)

LineSpec == Init /\ [][NextLine]_vars

\* ================================================================== claims

\* A call has settled and its promise was fulfilled with a line.
Returned == pc = "idle" /\ settled.outcome = "fulfilled"

EndsWith(seq, suffix) ==
    /\ Len(suffix) <= Len(seq)
    /\ SubSeq(seq, Len(seq) - Len(suffix) + 1, Len(seq)) = suffix

\* The run that has just settled: three release-line calls whose lookups
\* resolved the authors A, C and B, isLast on the third only.
RunOfACB ==
    /\ Returned
    /\ IsLast(call.opts)
    /\ runLog = <<[kind |-> "release", author |-> "A"],
                  [kind |-> "release", author |-> "C"],
                  [kind |-> "release", author |-> "B"]>>

\* C1: after three sequential release-line calls of one run that resolved
\* the authors A, C and B, isLast only on the third, the third call's output
\* ends with "Huge thanks to @A, @B, and @C for helping!": every author
\* gathered in the run is credited on the last call, sorted.
C1_RunAuthorsAllCredited ==
    RunOfACB =>
        EndsWith(settled.credits,
                 <<"Huge thanks to ", "@A", ", ", "@B", ", and ", "@C", " for helping!">>)

\* Two release-line calls in a row, both with isLast, both fulfilled, each
\* having resolved an author, the first of them credited.
SecondLastCall ==
    /\ Returned
    /\ call.kind = "release" /\ IsLast(call.opts) /\ Gathered(infos) # {}
    /\ prev.kind = "release" /\ prev.isLast /\ prev.gathered /\ prev.credited

\* C2: credits are rendered at most once per run: of two release-line calls
\* with isLast, each resolving an author, only the first gets the credits
\* block and the second call's output has none.
C2_CreditsOncePerRun == SecondLastCall => settled.credits = <<>>

\* C3: when the first call of the next run begins resolving (the wrapper has
\* entered and calls the renderer with a repo), the Author Accumulator is
\* empty and the flush flag is clear, whatever calls came before, failed
\* ones included.
C3_NextRunStartsEmpty ==
    (call.kind # "none" /\ call.firstOfRun /\ ~MissingRepo(call.opts)) =>
        (call.entry.allAuthors = {} /\ ~call.entry.hasAddedCredits)

\* The changeset of a release-line call, and what its summary holds.
TheChangeset == call.changesets[1]

Has(summary, kind) == \E i \in 1..Len(summary) : summary[i].kind = kind

\* The first line of a kind: no line of that kind stands before it.
First(summary, kind) ==
    CHOOSE i \in 1..Len(summary) :
        summary[i].kind = kind /\ \A k \in 1..(i - 1) : summary[k].kind # kind

\* The lines of a rendered release line, headline first.
Body(line) == <<line.firstLine>> \o line.futureLines

\* The authors the call has credited, or holds to be credited.
Accumulated ==
    IF settled.credits # <<>>
    THEN {a \in Authors : \E i \in 1..Len(settled.credits) : settled.credits[i] = "@" \o a}
    ELSE allAuthors

\* C4: with options null or without a repo, both entry points fail with the
\* configuration error, delivered as the rejection of the promise they
\* return: nothing is thrown to the caller at call time, no lookup is made
\* and no line is produced.
C4_MissingRepoRejectsPromise ==
    (call.kind # "none" /\ MissingRepo(call.opts)) =>
        /\ pc = "idle"
        /\ settled.outcome = "rejected"
        /\ settled.line = EmptyLine /\ settled.credits = <<>>
        /\ \A i \in 1..Len(infos) : infos[i].state = "none"

\* C4 as claimed: the configuration error is thrown synchronously to the
\* caller, not delivered as a rejection of the returned promise.
C4_MissingRepoThrowsSynchronously ==
    (call.kind # "none" /\ MissingRepo(call.opts)) => settled.outcome = "thrown"

\* Both entry points have been called without a repo.
C4_Witness ==
    /\ call.kind = "dependency" /\ MissingRepo(call.opts) /\ call.opts.given
    /\ call.deps > 0 /\ \E i \in 1..Len(call.changesets) : call.changesets[i].commit # ""
    /\ settled.outcome = "rejected"

\* C5: a rejected lookup is never propagated: the call that made it is
\* pending or fulfilled, never rejected; once every lookup has settled it
\* has returned a line; and the accumulator holds (or the credits name)
\* the authors it held on entry and those of the lookups that resolved,
\* none for the failed one.
C5_HostFailureNotPropagated ==
    (\E i \in 1..Len(infos) : infos[i].state = "rejected") =>
        /\ settled.outcome \in {"pending", "fulfilled"}
        /\ pc = "idle" => settled.outcome = "fulfilled" /\ settled.line.kind = call.kind
        /\ Accumulated = call.entry.allAuthors \cup Gathered(infos)
        /\ \A i \in 1..Len(infos) : infos[i].state = "rejected" => infos[i].info = NoInfo

\* A release line was returned after its lookup failed, and a dependency
\* line after one lookup failed and another resolved an author.
C5_Witness ==
    /\ Returned /\ call.kind = "dependency" /\ Len(infos) = 2
    /\ infos[1].state = "rejected" /\ infos[2].state = "resolved"
    /\ infos[2].info.user = "A" /\ Accumulated = {"A"}

\* The lookup of a release line failed, a commit was known and neither a pr
\* directive nor the PR field gave a number.
FailedWithCommit ==
    /\ Returned /\ call.kind = "release"
    /\ infos[1].state = "rejected"
    /\ ~Has(TheChangeset.summary, "pr") /\ TheChangeset.PR = <<>>
    /\ (Has(TheChangeset.summary, "commit") \/ TheChangeset.commit # "")

\* C6: when the lookup fails, a commit is known and no PR number is
\* available, the rendered line carries no reference at all: the headline
\* has no trailing parenthetical.
C6_FailedLookupRendersNoLink == FailedWithCommit => settled.line.link = NoLink

\* C6 as claimed: the line still carries a plain commit reference to
\* <repo>/commit/<hash> as a fallback.
C6_FailedLookupFallsBackToCommit ==
    FailedWithCommit =>
        settled.line.link = Link("commit", <<>>, "", call.queries[1].commit)

C6_Witness ==
    /\ FailedWithCommit
    /\ Has(TheChangeset.summary, "commit") /\ TheChangeset.commit = "wrongcommit"
    /\ settled.line.link = NoLink

\* The number a summary's first pr directive gives.
DirectivePull(summary) == Number(summary[First(summary, "pr")].digits)

\* C7: for every summary with a pr / pull / pull request directive "N" or
\* "#N" and every intrinsic commit, the rendered line's parenthetical is
\* exactly ([#N](https://github.com/<repo>/pull/N)): the directive's number
\* wins over the changeset's PR field and the number in the resolved link.
C7_PrDirectiveWins ==
    (Returned /\ call.kind = "release" /\ Has(TheChangeset.summary, "pr")) =>
        settled.line.link =
            Link("pull", NumberToString(DirectivePull(TheChangeset.summary)), call.opts.repo, "")

\* The lookup the precedence pr directive > commit directive > intrinsic
\* commit > none asks for.
LookupByPrecedence(changeset) ==
    IF Has(changeset.summary, "pr")
    THEN Query("pull", DirectivePull(changeset.summary), "")
    ELSE IF Has(changeset.summary, "commit")
    THEN Query("commit", 0, changeset.summary[First(changeset.summary, "commit")].tok)
    ELSE IF changeset.commit # ""
    THEN Query("commit", 0, changeset.commit)
    ELSE NoQuery

\* A release line called with a repo and none of the three sources.
NothingToResolve ==
    /\ call.kind = "release" /\ ~MissingRepo(call.opts)
    /\ LookupByPrecedence(TheChangeset) = NoQuery

DirectiveAuthors(summary) ==
    {summary[i].tok : i \in {k \in 1..Len(summary) : summary[k].kind = "author"}}

\* C9: with an author / user directive the directive's authors are the
\* ones credited and the resolved author is not added; without one the
\* resolved author is added; the directive lines are not rendered.
C9_AuthorDirectiveOverrides ==
    (Returned /\ call.kind = "release") =>
        IF Has(TheChangeset.summary, "author")
        THEN /\ Accumulated = call.entry.allAuthors \cup DirectiveAuthors(TheChangeset.summary)
             /\ ~Has(Body(settled.line), "author")
        ELSE Accumulated = call.entry.allAuthors \cup Gathered(infos)

\* What the code puts between the parentheses after the headline.
Parenthetical(line) == IF line.link = NoLink THEN <<>> ELSE <<line.link>>

\* The ticket lines of a summary, in order, as the links the claim renders.
RECURSIVE TicketLinks(_)
TicketLinks(summary) ==
    IF summary = <<>> THEN <<>>
    ELSE (IF Head(summary).kind = "ticket"
          THEN <<[t |-> "ticket", label |-> "PRO-142", url |-> Head(summary).tok]>>
          ELSE <<>>) \o TicketLinks(Tail(summary))

\* C10: every "ticket: <absolute URL>" line is removed from the body and
\* the tickets follow the PR / commit link in the parenthetical, in input
\* order, as [<last path segment>](<url>).
C10_TicketsRendered ==
    (Returned /\ call.kind = "release" /\ Has(TheChangeset.summary, "ticket")) =>
        /\ ~Has(Body(settled.line), "ticket")
        /\ \E shown \in {<<>>, <<settled.line.link>>} :
              Parenthetical(settled.line) = shown \o TicketLinks(TheChangeset.summary)

\* The commit links the resolved lookups of the first n changesets gave, in
\* the input order of the changesets.
RECURSIVE ResolvedLinks(_)
ResolvedLinks(n) ==
    IF n = 0 THEN <<>>
    ELSE IF infos[n].state = "resolved" /\ infos[n].info.commit # ""
         THEN Append(ResolvedLinks(n - 1), infos[n].info.commit)
         ELSE ResolvedLinks(n - 1)

\* A dependency-line call that got past the repo check with a dependency
\* to list.
DependencyLookups ==
    call.kind = "dependency" /\ ~MissingRepo(call.opts) /\ call.deps > 0

\* C11: the lookups of a dependency line are all in flight at once (one per
\* changeset with a commit, none for a changeset without) and settle in any
\* order; the line is produced only when every lookup has settled, and the
\* link list of its header is then the commit links of the changesets whose
\* lookup resolved, each the link of that changeset's own commit, in the
\* input order of the changesets, whatever the order of completion.
C11_LinksInInputOrder ==
    DependencyLookups =>
        /\ \A i \in 1..Len(infos) :
              (infos[i].state = "none") = (call.changesets[i].commit = "")
        /\ (\E i \in 1..Len(infos) : infos[i].state = "pending") =>
              pc = "dependency" /\ settled.outcome = "pending"
        /\ pc = "idle" =>
              /\ settled.outcome = "fulfilled"
              /\ settled.line.links = ResolvedLinks(Len(infos))
              /\ \A i \in 1..Len(infos) :
                    infos[i].state = "resolved" =>
                        infos[i].info.commit \in {"", call.changesets[i].commit}

\* Two lookups for different commits settled in the reverse of the input
\* order, both with a link, and the line was returned.
C11_Witness ==
    /\ Returned /\ DependencyLookups
    /\ completed = <<2, 1>>
    /\ call.changesets[1].commit # call.changesets[2].commit
    /\ settled.line.links = <<call.changesets[1].commit, call.changesets[2].commit>>

\* The lines of a summary that are left when the matched text of the first
\* pr directive and of the first commit directive is taken out: every other
\* line, later directives of the same kind included, and what a taken
\* directive had after its number or token.
RECURSIVE Kept(_, _)
Kept(summary, n) ==
    IF n = 0 THEN <<>>
    ELSE IF summary[n].kind \in {"pr", "commit"} /\ n = First(summary, summary[n].kind)
         THEN Kept(summary, n - 1) \o (IF summary[n].tail THEN <<Text("trailing")>> ELSE <<>>)
         ELSE Append(Kept(summary, n - 1), summary[n])

\* The lines of a rendered release line that are not empty.
Printed(line) == SelectSeq(Body(line), LAMBDA l : ~IsBlank(l))

\* A release line was returned.
ReleaseReturned == Returned /\ call.kind = "release"

\* C12: for every summary, the first line that matches the pr pattern and
\* the first line that matches the commit pattern supply the overrides and
\* their matched text is taken out of the rendered body; later lines of a
\* kind that already matched are ignored for the override, and they stay in
\* the rendered body as text, as does what follows the token on a matched line.
C12_FirstDirectiveStripped ==
    ReleaseReturned =>
        /\ Printed(settled.line) = Kept(TheChangeset.summary, Len(TheChangeset.summary))
        /\ Has(TheChangeset.summary, "pr") =>
              call.queries[1] = Query("pull", DirectivePull(TheChangeset.summary), "")
        /\ (~Has(TheChangeset.summary, "pr") /\ Has(TheChangeset.summary, "commit")) =>
              call.queries[1] =
                Query("commit", 0,
                      TheChangeset.summary[First(TheChangeset.summary, "commit")].tok)

\* C12 as claimed: no line of the rendered body, headline or continuation,
\* is a pr or a commit directive line.
C12_EveryDirectiveStripped ==
    ReleaseReturned =>
        \A i \in 1..Len(Body(settled.line)) :
            Body(settled.line)[i].kind \notin {"pr", "commit"}

\* A summary with two pr directives and two commit directives was rendered:
\* the first pr directive was looked up, the second of each kind is printed.
C12_Witness ==
    /\ ReleaseReturned
    /\ TheChangeset.summary =
         <<PrLine("pr", FALSE, <<7>>, FALSE), PrLine("pull", TRUE, <<0, 5>>, FALSE),
           CommitLine("wrongcommit", TRUE)>>
    /\ call.queries[1] = Query("pull", 7, "")
    /\ Body(settled.line) = <<PrLine("pull", TRUE, <<0, 5>>, FALSE), Text("trailing")>>

\* The step of a call without a repo: the wrapper is entered from idle.
CallWithoutRepo == pc = "idle" /\ MissingRepo(call'.opts)

====
